---- MODULE Spec2Model ----
(***************************************************************************)
(* A model of timezones/fields.py (django-timezones): TimeZoneField,       *)
(* LocalizedDateTimeField, create_property and prep_localized_datetime.    *)
(*                                                                         *)
(* Python values are records [k, z, w]:                                    *)
(*   k = "None"   the value None                                           *)
(*   k = "str"    a string, z its text                                     *)
(*   k = "tz"     a pytz tzinfo object, z its zone name                    *)
(*   k = "dt"     a datetime, w its wall clock (hours), z the zone of its  *)
(*                tzinfo ("" for a naive datetime)                         *)
(*   k = "bool"   True                                                     *)
(*   k = "func"   a callable taking the instance, z its name               *)
(*   k = "method" a bound method of the instance, z its name               *)
(*   k = "raise"  an exception propagating out of the call, z its class    *)
(* pytz is an external library: a zone is modelled by its name and a fixed *)
(* UTC offset in hours (no DST transitions inside the modelled hours).     *)
(***************************************************************************)
EXTENDS Integers, Sequences, FiniteSets, TLC

VARIABLES default_tz, INTERNAL_TZ, fields, class_attrs, inst, last

vars == <<default_tz, INTERNAL_TZ, fields, class_attrs, inst, last>>

\* Wall-clock hours of the datetimes given as inputs are 0..MaxHour.
MaxHour == 1

---------------------------------------------------------------------------
\* Python values

None == [k |-> "None", z |-> "", w |-> 0]
Str(s) == [k |-> "str", z |-> s, w |-> 0]
Tz(name) == [k |-> "tz", z |-> name, w |-> 0]
Dt(wall, zone) == [k |-> "dt", z |-> zone, w |-> wall]
True == [k |-> "bool", z |-> "", w |-> 1]
Func(name) == [k |-> "func", z |-> name, w |-> 0]
Method(name) == [k |-> "method", z |-> name, w |-> 0]
Raise(exc) == [k |-> "raise", z |-> exc, w |-> 0]

\* callable(x), isinstance(x, basestring)
callable(x) == x.k \in {"func", "method"}
is_basestring(x) == x.k = "str"

---------------------------------------------------------------------------
\* pytz

all_timezones_set == {"UTC", "Europe/Stockholm", "America/Chicago"}

\* tzinfo.utcoffset, in hours
utcoffset(zone) ==
    CASE zone = "UTC" -> 0
      [] zone = "Europe/Stockholm" -> 1
      [] zone = "America/Chicago" -> 0 - 6

\* tz.localize(dt): the naive wall clock, taken as being in tz
localize(tz, dt) == Dt(dt.w, tz.z)

\* dt.astimezone(tz): the same instant, on tz's wall clock
astimezone(dt, tz) == Dt(dt.w - utcoffset(dt.z) + utcoffset(tz.z), tz.z)

\* value.replace(tzinfo=None); AttributeError on a value that has no replace
replace_tzinfo_None(value) ==
    IF value.k = "dt" THEN Dt(value.w, "") ELSE Raise("AttributeError")

\* hasattr(value, 'tzinfo')
hasattr_tzinfo(value) == value.k = "dt"

\* smart_unicode(value) / smart_str(value): the text of the value; the text
\* of a tzinfo object is its zone name
smart_unicode(value) == IF value.k = "tz" THEN Str(value.z) ELSE value

---------------------------------------------------------------------------
\* timezones.utils

\* coerce_timezone_value(value): pytz.timezone(value), ValidationError for a
\* name pytz does not know
coerce_timezone_value(value) ==
    IF value.k = "str" /\ value.z \in all_timezones_set
    THEN Tz(value.z)
    ELSE Raise("ValidationError")

\* get_timezone(tz, default): a timezone name becomes its timezone, a tzinfo
\* object is itself, None is the default
get_timezone(tz, default) ==
    CASE tz.k = "None" -> default
      [] tz.k = "tz" -> tz
      [] tz.k = "str" /\ tz.z \in all_timezones_set -> Tz(tz.z)
      [] OTHER -> Raise("UnknownTimeZoneError")

---------------------------------------------------------------------------
\* TimeZoneField

\* models.CharField.to_python: strings and None as they are, else the text
CharField_to_python(value) ==
    IF is_basestring(value) \/ value = None THEN value ELSE smart_unicode(value)

TimeZoneField_to_python(value) ==
    LET v == CharField_to_python(value)
    IN  IF v = None THEN None ELSE coerce_timezone_value(v)

\* get_prep_value without the conversion to text
TimeZoneField_get_prep_value_Raw(value) == value

TimeZoneField_get_prep_value(value) ==
    IF value # None THEN smart_unicode(value) ELSE value

TimeZoneField_get_db_prep_save(value) == TimeZoneField_get_prep_value(value)

---------------------------------------------------------------------------
\* LocalizedDateTimeField

\* __init__: a timezone name pytz knows becomes its tzinfo object; any other
\* value (callable, attribute name, tzinfo object, None) is kept
LocalizedDateTimeField(timezone, save_timezone) ==
    LET t == IF is_basestring(timezone) THEN smart_unicode(timezone) ELSE timezone
    IN  [cls |-> "LocalizedDateTimeField",
         timezone |-> IF t.k = "str" /\ t.z \in all_timezones_set
                      THEN Tz(t.z) ELSE t,
         save_timezone |-> save_timezone]

\* TimeZoneField.__init__: no timezone option of its own
TimeZoneField == 
    [cls |-> "TimeZoneField", timezone |-> None, save_timezone |-> TRUE]

\* The model class's bound methods and the callables given as timezone=...
MethodNames == {"get_tz_name"}

\* hasattr(instance, name) / getattr(instance, name) for the plain
\* attributes and the methods of the instance
hasattr(instance, name) == name \in DOMAIN instance \/ name \in MethodNames

getattr(instance, name) ==
    CASE name \in DOMAIN instance -> instance[name]
      [] name \in MethodNames -> Method(name)
      [] OTHER -> Raise("AttributeError")

\* setattr(instance, name, value) on the instance's __dict__
setattr(instance, name, value) ==
    [a \in DOMAIN instance \cup {name} |->
        IF a = name THEN value ELSE instance[a]]

\* timezoneish(instance): the callables a model may configure.
\*   tz_for: the name of the instance's timezone attribute value (or None)
\*   tz_attr_for: the name of the attribute that holds the timezone
call_with_instance(f, instance) ==
    CASE f.z = "tz_for" -> 
            IF instance["timezone"] = None THEN None
            ELSE smart_unicode(instance["timezone"])
      [] f.z = "tz_attr_for" -> Str("timezone")
      [] OTHER -> Raise("TypeError")

\* timezoneish(): the instance's method get_tz_name returns the name of the
\* instance's timezone attribute value (or None)
call_no_args(m, instance) ==
    CASE m.z = "get_tz_name" -> 
            IF instance["timezone"] = None THEN None
            ELSE smart_unicode(instance["timezone"])
      [] OTHER -> Raise("TypeError")

\* get_timezone_for_instance without the call of a callable attribute
get_timezone_for_instance_NoMethodCall(field, instance) ==
    LET t0 == field.timezone
        t1 == IF callable(t0) THEN call_with_instance(t0, instance) ELSE t0
        t2 == IF is_basestring(t1) /\ hasattr(instance, t1.z)
              THEN getattr(instance, t1.z)
              ELSE t1
    IN  get_timezone(t2, default_tz)

get_timezone_for_instance(field, instance) ==
    LET t0 == field.timezone
        \* 1. Callable?
        t1 == IF callable(t0) THEN call_with_instance(t0, instance) ELSE t0
        \* 2. Attribute?  Callable (i.e. object method)?
        t2 == IF is_basestring(t1) /\ hasattr(instance, t1.z)
              THEN LET a == getattr(instance, t1.z)
                   IN  IF callable(a) THEN call_no_args(a, instance) ELSE a
              ELSE t1
        \* 3. a string or a tzinfo object
    IN  get_timezone(t2, default_tz)

\* get_db_prep_save ignoring save_timezone
get_db_prep_save_NoStrip(field, value) ==
    IF value # None
    THEN IF value.z = "" THEN localize(INTERNAL_TZ, value)
                         ELSE astimezone(value, INTERNAL_TZ)
    ELSE value

\* The model records the argument of the call to the base DateTimeField's
\* method as the result: the base class is Django's.
get_db_prep_save(field, value) ==
    IF value # None
    THEN LET v == IF value.z = "" THEN localize(INTERNAL_TZ, value)
                                  ELSE astimezone(value, INTERNAL_TZ)
         IN  IF ~field.save_timezone THEN replace_tzinfo_None(v) ELSE v
    ELSE value

\* get_db_prep_lookup leaving a naive value as it is
get_db_prep_lookup_NaiveKept(field, lookup_type, value) ==
    LET v == IF hasattr_tzinfo(value) /\ value.z # ""
             THEN astimezone(value, default_tz)
             ELSE value
    IN  IF ~field.save_timezone THEN replace_tzinfo_None(v) ELSE v

get_db_prep_lookup(field, lookup_type, value) ==
    LET v == IF hasattr_tzinfo(value)
             THEN IF value.z = "" THEN localize(default_tz, value)
                                  ELSE astimezone(value, default_tz)
             ELSE value
    IN  IF ~field.save_timezone THEN replace_tzinfo_None(v) ELSE v

---------------------------------------------------------------------------
\* create_property, prep_localized_datetime

dt_field_name(attname) == "_dtz_" \o attname

\* sender._meta.fields, in declaration order
meta_fields == <<"timezone", "start", "end", "plain">>

\* get_dtz_field converting to the instance's timezone on every read
get_dtz_field_Relocalize(attname, instance) ==
    LET v == getattr(instance, dt_field_name(attname))
    IN  IF v.k = "dt"
        THEN astimezone(v, get_timezone_for_instance(fields[attname], instance))
        ELSE v

\* get_dtz_field(instance)
get_dtz_field(attname, instance) == getattr(instance, dt_field_name(attname))

\* set_dtz_field converting a None as well: None has no tzinfo
set_dtz_field_NoNoneCheck(attname, field, instance, dt) ==
    LET timezone == get_timezone_for_instance(field, instance)
    IN  IF dt.k # "dt"
        THEN [exc |-> Raise("AttributeError"), inst |-> instance,
              tz |-> timezone]
        ELSE [exc |-> None, tz |-> timezone,
              inst |-> setattr(instance, dt_field_name(attname),
                          astimezone(IF dt.z = "" THEN localize(INTERNAL_TZ, dt)
                                     ELSE dt, timezone))]

\* set_dtz_field attaching the timezone to the wall clock, not converting
set_dtz_field_ReplaceTz(attname, field, instance, dt) ==
    IF dt = None
    THEN [exc |-> None, tz |-> None,
          inst |-> setattr(instance, dt_field_name(attname), None)]
    ELSE LET timezone == get_timezone_for_instance(field, instance)
         IN  [exc |-> None, tz |-> timezone,
              inst |-> setattr(instance, dt_field_name(attname),
                               localize(timezone, dt))]

\* set_dtz_field(instance, dt): [exc, inst, tz], exc the exception raised
\* (None when none is), inst the instance afterwards, tz the result of the
\* call of get_timezone_for_instance (None when it is not called)
set_dtz_field(attname, field, instance, dt) ==
    IF dt = None
    THEN [exc |-> None, tz |-> None,
          inst |-> setattr(instance, dt_field_name(attname), None)]
    ELSE LET d == IF dt.z = "" THEN localize(INTERNAL_TZ, dt) ELSE dt
             timezone == get_timezone_for_instance(field, instance)
         IN  IF timezone.k = "raise"
             THEN [exc |-> timezone, tz |-> timezone, inst |-> instance]
             ELSE [exc |-> None, tz |-> timezone,
                   inst |-> setattr(instance, dt_field_name(attname),
                                    astimezone(d, timezone))]

\* The closure bug the source's comment describes: every property refers to
\* the loop's last field.
create_property_LastField(attname) ==
    [kind |-> "property", field |-> meta_fields[Len(meta_fields)]]

\* create_property(field): the property, bound to its field
create_property(attname) == [kind |-> "property", field |-> attname]

RECURSIVE prep_loop(_, _, _)
prep_loop(i, flds, attrs) ==
    IF i > Len(meta_fields) THEN attrs
    ELSE LET name == meta_fields[i]
         IN  IF flds[name].cls # "LocalizedDateTimeField"
                \/ flds[name].timezone = None
             THEN prep_loop(i + 1, flds, attrs)
             ELSE prep_loop(i + 1, flds,
                            [attrs EXCEPT ![name] = create_property(name)])

\* prep_localized_datetime(sender): the class's attributes afterwards
prep_localized_datetime(flds, attrs) == prep_loop(1, flds, attrs)

\* The class attributes before class_prepared: SubfieldBase has put its
\* descriptor on a TimeZoneField's name, a DateTimeField has none.
class_attrs_before(flds) ==
    [name \in DOMAIN flds |->
        IF flds[name].cls = "TimeZoneField"
        THEN [kind |-> "Creator", field |-> name]
        ELSE [kind |-> "absent", field |-> name]]

\* instance.<name> = value: through the property, through SubfieldBase's
\* descriptor (to_python on assignment), or into the instance's __dict__
instance_setattr(attrs, flds, instance, name, value) ==
    CASE attrs[name].kind = "property" ->
            set_dtz_field(attrs[name].field, flds[attrs[name].field],
                          instance, value)
      [] attrs[name].kind = "Creator" ->
            LET v == TimeZoneField_to_python(value)
            IN  IF v.k = "raise"
                THEN [exc |-> v, tz |-> None, inst |-> instance]
                ELSE [exc |-> None, tz |-> None,
                      inst |-> setattr(instance, name, v)]
      [] OTHER -> [exc |-> None, tz |-> None,
                   inst |-> setattr(instance, name, value)]

\* instance.<name>
instance_getattr(attrs, instance, name) ==
    IF attrs[name].kind = "property"
    THEN get_dtz_field(attrs[name].field, instance)
    ELSE getattr(instance, name)

\* Model.__init__ with no arguments: every field, in order, is set to its
\* default: settings.TIME_ZONE for the TimeZoneField, None for a datetime
RECURSIVE Model_init(_, _, _, _)
Model_init(i, attrs, flds, instance) ==
    IF i > Len(meta_fields) THEN instance
    ELSE LET name == meta_fields[i]
             default == IF flds[name].cls = "TimeZoneField"
                        THEN Str(default_tz.z) ELSE None
         IN  Model_init(i + 1, attrs, flds,
                 instance_setattr(attrs, flds, instance, name, default).inst)

---------------------------------------------------------------------------
\* The state machine: one model class, one instance of it.

\* timezone=... of the field "start"
TimezoneArgs ==
    {Str("Europe/Stockholm"), Tz("America/Chicago"), Str("timezone"),
     Str("get_tz_name"), Func("tz_for"), Func("tz_attr_for")}

\* The datetimes a caller passes: naive and aware, hours 0..MaxHour
Datetimes == {Dt(w, z) : w \in 0..MaxHour, z \in all_timezones_set \cup {""}}

\* The values assigned to each datetime attribute
Assigned(f) ==
    CASE f = "start" -> Datetimes \cup {None}
      [] f = "end" -> {None, Dt(0, ""), Dt(MaxHour, "Europe/Stockholm")}
      [] f = "plain" -> {None, Dt(MaxHour, "")}

\* The values assigned to the instance's timezone attribute
TimezoneValues ==
    {None, Str("Mars/Phobos")}
    \cup {Str(z) : z \in all_timezones_set} \cup {Tz(z) : z \in all_timezones_set}

DatetimeFields == {"start", "end", "plain"}

\* last: the last call made, its arguments, what it returned or raised, and
\* the timezone it resolved (None when it resolved none)
NoOp ==
    [op |-> "init", f |-> "", lt |-> "", arg |-> None, out |-> None,
     tz |-> None]

\* settings.TIME_ZONE and settings.TIMEZONES_INTERNAL_TZ (pytz.utc when unset)
TIME_ZONE_settings == all_timezones_set
TIMEZONES_INTERNAL_TZ_settings ==
    {Tz("UTC"), Str("Europe/Stockholm"), Str("America/Chicago")}

\* The module's globals and the model class, then one instance
Setup(TIME_ZONE, internal, t, s) ==
    /\ default_tz = Tz(TIME_ZONE)
    /\ INTERNAL_TZ = get_timezone(internal, None)
    /\ fields = [timezone |-> TimeZoneField,
                 start |-> LocalizedDateTimeField(t, s),
                 end |-> LocalizedDateTimeField(Str("UTC"), ~s),
                 plain |-> LocalizedDateTimeField(None, s)]
    /\ class_attrs = prep_localized_datetime(fields, class_attrs_before(fields))
    /\ inst = Model_init(1, class_attrs, fields, << >>)
    /\ last = NoOp

\* Every timezone= of "start", under three settings: all UTC, Django's
\* default TIME_ZONE with the default internal timezone, and both set
Init ==
    \E p \in {<<"UTC", Tz("UTC")>>, <<"America/Chicago", Tz("UTC")>>,
              <<"Europe/Stockholm", Str("America/Chicago")>>},
       t \in TimezoneArgs :
        Setup(p[1], p[2], t, TRUE)

\* Every combination of the two settings and of save_timezone
InitDb ==
    \E z \in TIME_ZONE_settings, i \in TIMEZONES_INTERNAL_TZ_settings,
       s \in BOOLEAN :
        Setup(z, i, Str("timezone"), s)

\* instance.<f> = dt
SetField(f, dt) ==
    LET r == instance_setattr(class_attrs, fields, inst, f, dt)
    IN  /\ inst' = r.inst
        /\ last' = [op |-> "set", f |-> f, lt |-> "", arg |-> dt, out |-> r.exc,
                    tz |-> r.tz]
        /\ UNCHANGED <<default_tz, INTERNAL_TZ, fields, class_attrs>>

\* instance.<f>
GetField(f) ==
    /\ last' = [op |-> "get", f |-> f, lt |-> "", arg |-> None,
                out |-> instance_getattr(class_attrs, inst, f), tz |-> None]
    /\ UNCHANGED <<default_tz, INTERNAL_TZ, fields, class_attrs, inst>>

\* instance.timezone = v
SetTimezone(v) ==
    LET r == instance_setattr(class_attrs, fields, inst, "timezone", v)
    IN  /\ inst' = r.inst
        /\ last' = [op |-> "set_tz", f |-> "timezone", lt |-> "", arg |-> v,
                    out |-> r.exc, tz |-> None]
        /\ UNCHANGED <<default_tz, INTERNAL_TZ, fields, class_attrs>>

\* TimeZoneField.get_db_prep_save(value), as Model.save calls it with the
\* attribute's value
SaveTimezone ==
    /\ last' = [op |-> "save_tz", f |-> "timezone", lt |-> "",
                arg |-> instance_getattr(class_attrs, inst, "timezone"),
                out |-> TimeZoneField_get_db_prep_save(
                           instance_getattr(class_attrs, inst, "timezone")),
                tz |-> None]
    /\ UNCHANGED <<default_tz, INTERNAL_TZ, fields, class_attrs, inst>>

\* TimeZoneField.to_python(value), as a form or a deserializer calls it
ToPython(v) ==
    /\ last' = [op |-> "to_python", f |-> "timezone", lt |-> "", arg |-> v,
                out |-> TimeZoneField_to_python(v), tz |-> None]
    /\ UNCHANGED <<default_tz, INTERNAL_TZ, fields, class_attrs, inst>>

\* LocalizedDateTimeField.get_db_prep_save(value)
PrepSave(f, value) ==
    /\ last' = [op |-> "save", f |-> f, lt |-> "", arg |-> value,
                out |-> get_db_prep_save(fields[f], value), tz |-> None]
    /\ UNCHANGED <<default_tz, INTERNAL_TZ, fields, class_attrs, inst>>

\* LocalizedDateTimeField.get_db_prep_lookup(lookup_type, value), as a
\* queryset filter calls it
Lookup(f, lookup_type, value) ==
    /\ last' = [op |-> "lookup", f |-> f, lt |-> lookup_type, arg |-> value,
                out |-> get_db_prep_lookup(fields[f], lookup_type, value),
                tz |-> None]
    /\ UNCHANGED <<default_tz, INTERNAL_TZ, fields, class_attrs, inst>>

\* The instance's attributes: assignments, reads, timezone changes
Next ==
    \/ \E f \in DatetimeFields : \E dt \in Assigned(f) : SetField(f, dt)
    \/ \E f \in DatetimeFields : GetField(f)
    \/ \E v \in {None} \cup {Tz(z) : z \in all_timezones_set} : SetTimezone(v)

Spec == Init /\ [][Next]_vars

\* The fields' conversions to and from the database
NextDb ==
    \/ \E v \in TimezoneValues : SetTimezone(v)
    \/ \E v \in TimezoneValues : ToPython(v)
    \/ SaveTimezone
    \/ \E f \in DatetimeFields, dt \in Datetimes \cup {None} : PrepSave(f, dt)
    \/ \E f \in DatetimeFields, dt \in Datetimes : Lookup(f, "exact", dt)
    \/ \E f \in DatetimeFields : Lookup(f, "isnull", True)

SpecDb == InitDb /\ [][NextDb]_vars

---------------------------------------------------------------------------
\* Properties

\* The instant (hours, UTC) an aware datetime denotes
Instant(d) == d.w - utcoffset(d.z)

\* The instant a datetime denotes when a naive one is read in timezone tz
InstantIn(d, tz) == IF d.z = "" THEN d.w - utcoffset(tz.z) ELSE Instant(d)

\* The fields whose class attribute is the property
PropertyFields == {f \in DatetimeFields : class_attrs[f].kind = "property"}

\* The timezone of the instance: its timezone attribute, the settings
\* timezone when that is None
InstanceTimezone ==
    IF inst["timezone"] = None THEN default_tz ELSE inst["timezone"]

\* The timezone each kind of configured value stands for
ExpectedTimezone(f) ==
    LET c == fields[f].timezone
    IN  CASE c.k = "tz" -> c
          [] c = Str("timezone") -> InstanceTimezone
          [] c = Str("get_tz_name") -> InstanceTimezone
          [] c = Func("tz_for") -> InstanceTimezone
          [] c = Func("tz_attr_for") -> InstanceTimezone
          [] OTHER -> None

\* C1: get_timezone_for_instance resolves the configured value in order: a
\* callable is called with the instance, a string naming an attribute is
\* replaced by the attribute (called when callable), and the result goes
\* through get_timezone with default_tz as fallback; for a timezone name, a
\* callable, an attribute name and a tzinfo object the result is a timezone.
C1_ResolutionOrder ==
    /\ \A f \in PropertyFields :
          /\ get_timezone_for_instance(fields[f], inst) = ExpectedTimezone(f)
          /\ get_timezone_for_instance(fields[f], inst).k = "tz"
    /\ \A z \in all_timezones_set :
          get_timezone_for_instance(LocalizedDateTimeField(Str(z), TRUE), inst)
             = Tz(z)
    /\ (last.op = "set" /\ last.tz # None) =>
          last.tz = ExpectedTimezone(last.f)

\* An assignment resolved the timezone through the instance's method, to a
\* timezone other than the settings timezone
C1_Witness ==
    /\ last.op = "set" /\ last.f = "start" /\ last.arg # None
    /\ fields["start"].timezone = Str("get_tz_name")
    /\ last.tz.k = "tz" /\ last.tz # default_tz

\* C2: assigning a non-None datetime to a localized field stores, and a read
\* returns, an aware datetime in the timezone get_timezone_for_instance
\* resolved at the assignment, denoting the same instant (a naive datetime
\* read in INTERNAL_TZ); assigning None stores None and resolves no timezone.
C2_AssignStoresLocalized ==
    (last.op = "set" /\ last.f \in PropertyFields) =>
        LET v == instance_getattr(class_attrs, inst, last.f)
        IN  IF last.arg = None
            THEN v = None /\ last.tz = None /\ last.out = None
            ELSE /\ last.out = None
                 /\ last.tz = get_timezone_for_instance(fields[last.f], inst)
                 /\ last.tz.k = "tz"
                 /\ v.k = "dt"
                 /\ v.z = last.tz.z
                 /\ Instant(v) = InstantIn(last.arg, INTERNAL_TZ)

\* A naive datetime was assigned and is stored on another wall clock
C2_Witness ==
    /\ last.op = "set" /\ last.f = "start"
    /\ last.arg.k = "dt" /\ last.arg.z = ""
    /\ inst["_dtz_start"].k = "dt"
    /\ inst["_dtz_start"].w # last.arg.w
    /\ inst["_dtz_start"].z # INTERNAL_TZ.z

\* C9 as stated: whenever a localized field is read it yields None or a
\* datetime in the timezone get_timezone_for_instance resolves for the
\* instance at the time of the read.
C9_ReadInCurrentTimezone ==
    (last.op = "get" /\ last.f \in PropertyFields) =>
        \/ last.out = None
        \/ /\ last.out.k = "dt"
           /\ last.out.z = get_timezone_for_instance(fields[last.f], inst).z

\* C9, amended: a read of a localized field never fails and yields None or an
\* aware datetime in the timezone get_timezone_for_instance resolved when the
\* value was assigned; a step that is not an assignment to the field (a
\* change of the instance's timezone among them) leaves what it reads as it
\* was.
C9_ReadInTimezoneOfAssignment ==
    [][\A f \in PropertyFields :
          LET before == instance_getattr(class_attrs, inst, f)
              after == instance_getattr(class_attrs, inst, f)'
          IN  /\ \/ after = None
                 \/ after.k = "dt" /\ after.z \in all_timezones_set
              /\ IF last'.op = "set" /\ last'.f = f
                 THEN IF last'.arg = None
                      THEN after = None
                      ELSE /\ after.k = "dt"
                           /\ after.z =
                                get_timezone_for_instance(fields[f], inst).z
                 ELSE after = before
              /\ (last'.op = "get" /\ last'.f = f) => last'.out = after
      ]_vars

\* A read yields a datetime in a timezone the instance no longer resolves
C9_Witness ==
    /\ last.op = "get" /\ last.f = "start"
    /\ last.out.k = "dt"
    /\ last.out.z # get_timezone_for_instance(fields["start"], inst).z

\* C10: assigning d, reading the attribute and passing the result to
\* get_db_prep_save gives what get_db_prep_save(d) gives (the same instant, in
\* INTERNAL_TZ, tzinfo removed iff save_timezone is False), and assigning the
\* value just read leaves the stored attribute as it is.
C10_RoundTrip ==
    (last.op = "set" /\ last.f \in PropertyFields /\ last.arg # None) =>
        LET r == instance_getattr(class_attrs, inst, last.f)
        IN  /\ \A s \in BOOLEAN :
                  LET fld == [fields[last.f] EXCEPT !.save_timezone = s]
                      a == get_db_prep_save(fld, r)
                      b == get_db_prep_save(fld, last.arg)
                  IN  /\ a = b
                      /\ a.k = "dt"
                      /\ a.z = IF s THEN INTERNAL_TZ.z ELSE ""
                      /\ a.w - utcoffset(INTERNAL_TZ.z)
                            = InstantIn(last.arg, INTERNAL_TZ)
            /\ instance_setattr(class_attrs, fields, inst, last.f, r).inst
                  = inst

\* The value read after an assignment is on another wall clock than the one
\* get_db_prep_save turns it back into
C10_Witness ==
    /\ last.op = "set" /\ last.f = "start" /\ last.arg.k = "dt"
    /\ inst["_dtz_start"].k = "dt"
    /\ inst["_dtz_start"].z # INTERNAL_TZ.z
    /\ get_db_prep_save(fields["start"], inst["_dtz_start"]).w
          # inst["_dtz_start"].w

\* The class attributes prep_localized_datetime leaves: the property, bound
\* to its own field, for a LocalizedDateTimeField with a timezone, and what
\* was there before for every other field
C7_ClassAttrs ==
    \A f \in DOMAIN fields :
        IF fields[f].cls = "LocalizedDateTimeField" /\ fields[f].timezone # None
        THEN class_attrs[f] = [kind |-> "property", field |-> f]
        ELSE class_attrs[f] = class_attrs_before(fields)[f]

\* C7: prep_localized_datetime installs the property for exactly the
\* LocalizedDateTimeFields with a non-None timezone; an assignment to a field
\* writes only that field's backing attribute "_dtz_<attname>", converts with
\* that field's timezone, and changes what no other field reads.
C7_OwnFieldOnly ==
    [][/\ C7_ClassAttrs
       /\ C7_ClassAttrs'
       /\ \A f \in DatetimeFields :
            (last'.op = "set" /\ last'.f = f) =>
              LET own == IF fields[f].cls = "LocalizedDateTimeField"
                            /\ fields[f].timezone # None
                         THEN "_dtz_" \o f ELSE f
                  new == instance_getattr(class_attrs, inst, f)'
              IN  /\ DOMAIN inst' = DOMAIN inst
                  /\ \A a \in DOMAIN inst : a # own => inst'[a] = inst[a]
                  /\ \A g \in DatetimeFields \ {f} :
                        instance_getattr(class_attrs, inst, g)'
                           = instance_getattr(class_attrs, inst, g)
                  /\ new = inst'[own]
                  /\ IF last'.arg = None \/ own = f
                     THEN new = last'.arg
                     ELSE /\ new.k = "dt"
                          /\ new.z =
                                get_timezone_for_instance(fields[f], inst).z
                          /\ Instant(new) = InstantIn(last'.arg, INTERNAL_TZ)
    ]_vars

\* Two localized fields hold datetimes in different timezones, and the field
\* with no timezone holds the naive value it was given
C7_Witness ==
    /\ last.op = "set"
    /\ inst["_dtz_start"].k = "dt" /\ inst["_dtz_end"].k = "dt"
    /\ inst["_dtz_start"].z # inst["_dtz_end"].z
    /\ inst["plain"].k = "dt" /\ inst["plain"].z = ""

---------------------------------------------------------------------------
\* Properties of the conversions to and from the database (SpecDb)

\* C3: get_db_prep_save hands the base field, for a non-None datetime, the
\* same instant in INTERNAL_TZ (a naive input read as being in INTERNAL_TZ),
\* with the tzinfo removed when save_timezone is False and kept when it is
\* True; None is handed on as it is.
C3_PrepSaveInInternalTz ==
    (last.op = "save") =>
        IF last.arg = None
        THEN last.out = None
        ELSE /\ last.out.k = "dt"
             /\ last.out.z = IF fields[last.f].save_timezone
                             THEN INTERNAL_TZ.z ELSE ""
             /\ last.out.w - utcoffset(INTERNAL_TZ.z)
                   = InstantIn(last.arg, INTERNAL_TZ)

\* An aware datetime of another timezone was saved with save_timezone False
C3_Witness ==
    /\ last.op = "save" /\ last.arg.k = "dt"
    /\ last.arg.z \notin {"", INTERNAL_TZ.z}
    /\ ~fields[last.f].save_timezone
    /\ last.out.k = "dt" /\ last.out.z = "" /\ last.out.w # last.arg.w

\* C4: TimeZoneField keeps None in both directions; to_python gives
\* coerce_timezone_value of the CharField conversion, get_prep_value the text
\* of the value, get_db_prep_save is get_prep_value; so for a valid timezone
\* name n, get_prep_value(to_python(n)) = n.
C4_TimeZoneFieldConversions ==
    /\ (last.op = "to_python") =>
          /\ last.arg = None => last.out = None
          /\ last.arg # None =>
                last.out = coerce_timezone_value(CharField_to_python(last.arg))
          /\ last.arg.z \in all_timezones_set =>
                /\ last.out = Tz(last.arg.z)
                /\ TimeZoneField_get_prep_value(last.out) = Str(last.arg.z)
    /\ (last.op = "save_tz") =>
          /\ last.arg = None => last.out = None
          /\ last.arg # None => last.out = Str(last.arg.z)
          /\ last.out = TimeZoneField_get_prep_value(last.arg)
    /\ (last.op = "set_tz" /\ last.arg.k = "str"
          /\ last.arg.z \in all_timezones_set) =>
          TimeZoneField_get_db_prep_save(inst["timezone"]) = last.arg

\* A timezone name was converted to its timezone object
C4_Witness ==
    /\ last.op = "to_python"
    /\ last.arg = Str("Europe/Stockholm")
    /\ last.out = Tz("Europe/Stockholm")

\* C5 as stated: a lookup value with no tzinfo attribute is handed to the
\* base field unchanged, without raising, whatever save_timezone is.
C5_NonDatetimeLookupUnchanged ==
    (last.op = "lookup" /\ ~hasattr_tzinfo(last.arg)) => last.out = last.arg

\* C6: get_db_prep_lookup converts a datetime lookup value to default_tz: a
\* naive one is localized in default_tz, an aware one converted keeping its
\* instant, and the tzinfo is removed when save_timezone is False.
C6_LookupInDefaultTz ==
    (last.op = "lookup" /\ hasattr_tzinfo(last.arg)) =>
        /\ last.out.k = "dt"
        /\ last.out.z = IF fields[last.f].save_timezone
                        THEN default_tz.z ELSE ""
        /\ last.out.w - utcoffset(default_tz.z)
              = InstantIn(last.arg, default_tz)

\* An aware datetime of another timezone was looked up with save_timezone
\* False
C6_Witness ==
    /\ last.op = "lookup" /\ last.arg.k = "dt"
    /\ last.arg.z \notin {"", default_tz.z}
    /\ ~fields[last.f].save_timezone
    /\ last.out.k = "dt" /\ last.out.z = "" /\ last.out.w # last.arg.w

\* Two prepared values denote the same stored value: naive ones the same wall
\* clock, aware ones the same instant
SameStored(a, b) ==
    /\ a.k = "dt" /\ b.k = "dt"
    /\ IF a.z = "" \/ b.z = "" THEN a = b ELSE Instant(a) = Instant(b)

\* C8 as stated: for every datetime d, settings and save_timezone,
\* get_db_prep_save(d) and get_db_prep_lookup('exact', d) denote the same
\* stored value.
C8_SaveAndLookupAgree ==
    (last.op = "lookup" /\ last.lt = "exact") =>
        SameStored(get_db_prep_save(fields[last.f], last.arg), last.out)

====
